---- MODULE Spec2Model ----
(***************************************************************************)
(* Model of src/src/components/data-generation.tsx: the status poller      *)
(* (pollUntilDone) and the pipeline runner (runGenerationPipeline) of the  *)
(* DataGeneration component; and of the wizard that renders it,            *)
(* SyntheticDataPlatform of src/src/components/synthetic-data-platform.tsx.*)
(*                                                                         *)
(* JavaScript is single threaded: the code between two awaits runs         *)
(* atomically, so every action below is one continuation, from the         *)
(* resolution of one await to the next await (or to the return).           *)
(*                                                                         *)
(* Ten specifications share the module:                                    *)
(*   SpecPoll  one call of pollUntilDone with caller-chosen options, the   *)
(*             caller's fetchStatus answering arbitrarily and the caller's *)
(*             abortRef being set at any moment;                           *)
(*   Spec      invocations of runGenerationPipeline on one component       *)
(*             instance, a later invocation possibly starting while an     *)
(*             earlier one is suspended;                                   *)
(*   SpecUI    the component as its own UI drives it: the Start button is  *)
(*             rendered only while isGenerating is false;                  *)
(*   SpecAbort SpecUI, with the cancellation flag being set while the run  *)
(*             is in flight;                                               *)
(*   SpecProps SpecUI, mounted with any props and with the parent changing *)
(*             them at any moment;                                         *)
(*   SpecAgain runGenerationPipeline invoked again once the earlier        *)
(*             invocation has returned, the cancellation flag being set    *)
(*             while a run is in flight;                                   *)
(*   SpecLog   pushLog and the reset of the log alone, on the exact log;   *)
(*   SpecPollFair  SpecPoll where every fetch settles and every delay      *)
(*             elapses;                                                    *)
(*   SpecLive  SpecUI where every request settles and every delay elapses, *)
(*             the train and the generation request succeed and the status *)
(*             endpoint ends up answering 'completed';                     *)
(*   SpecWizard  the wizard from its first render: uploads, selections,    *)
(*             step clicks and resets, interleaved with the pipeline of    *)
(*             the component.                                              *)
(***************************************************************************)
EXTENDS Integers, Sequences, FiniteSets

\* ------------------------------------------------------------------ bounds
MaxCallFetches == 9    \* fetches one standalone pollUntilDone call may make
HistLen == 3           \* how many first fetch outcomes the history keeps
MaxRuns == 2           \* invocations of runGenerationPipeline
LogWindow == 2         \* most recent debug lines the model keeps
MaxPolls == 5          \* status fetches the training pollers make in total
MaxPushes == 203       \* pushLog calls on the exact log (SpecLog)

\* ------------------------------------------------------- program constants
DefaultMaxConsecutiveErrors == 5
LogCap == 200
WPreprocessing == 25
WTraining == 35
WGeneration == 30
WValidation == 10

\* --------------------------------------------------------------- JS values
\* A JavaScript number: NaN, or a finite value (an integer in this model).
NaN == [nan |-> TRUE, val |-> 0]
Num(n) == [nan |-> FALSE, val |-> n]

\* The `percent` field of a status payload as the backend may send it:
\* absent (undefined or null), a number, NaN (only from a non-JSON
\* fetchStatus), a non-numeric string, or a numeric string.
RawAbsent == [kind |-> "absent", val |-> 0]
RawNumber(n) == [kind |-> "number", val |-> n]
RawNaN == [kind |-> "nan", val |-> 0]
RawText == [kind |-> "text", val |-> 0]
RawNumText(n) == [kind |-> "numtext", val |-> n]

\* raw.percent ?? 0
NullishZero(raw) == IF raw.kind = "absent" THEN RawNumber(0) ELSE raw

\* Number(x)
ToNumber(raw) ==
    CASE raw.kind = "number" -> Num(raw.val)
      [] raw.kind = "numtext" -> Num(raw.val)
      [] raw.kind = "nan" -> NaN
      [] raw.kind = "text" -> NaN
      [] OTHER -> NaN    \* Number(undefined); unreachable after ?? 0

\* Math.min / Math.max: NaN if either argument is NaN
MathMin(a, b) ==
    IF a.nan \/ b.nan THEN NaN ELSE IF a.val <= b.val THEN a ELSE b
MathMax(a, b) ==
    IF a.nan \/ b.nan THEN NaN ELSE IF a.val >= b.val THEN a ELSE b

\* Math.max(0, Math.min(100, Number(raw.percent ?? 0)))
ClampPercent(raw) ==
    MathMax(Num(0), MathMin(Num(100), ToNumber(NullishZero(raw))))

\* The `status` field of a payload: a string, or some non-string value.
StrStatus(s) == [isString |-> TRUE, text |-> s]
NonStringStatus == [isString |-> FALSE, text |-> ""]

\* String.prototype.toLowerCase over the status alphabet of the model
ToLowerCase(s) ==
    CASE s = "RUNNING" -> "running"
      [] s = "Completed" -> "completed"
      [] s = "FAILED" -> "failed"
      [] s = "Error" -> "error"
      [] OTHER -> s

safeLower(x) == IF x.isString THEN ToLowerCase(x.text) ELSE ""

\* ------------------------------------------------- answers of fetchStatus
\* fetchStatus rejects (network error, !res.ok, unparsable body) ...
FetchFailed == [ok |-> FALSE, status |-> NonStringStatus, percent |-> RawAbsent]
\* ... or resolves with a payload.
Payload(s, p) == [ok |-> TRUE, status |-> s, percent |-> p]

StatusValues ==
    { StrStatus("running"), StrStatus("RUNNING"), StrStatus("completed"),
      StrStatus("failed"), StrStatus("Error"), StrStatus("pending"),
      StrStatus(""), NonStringStatus }

PercentValues ==
    { RawAbsent, RawNumber(-50), RawNumber(40), RawNumber(150), RawNaN,
      RawText, RawNumText(80) }

\* What a standalone caller's fetchStatus may answer.
CallResponses ==
    {FetchFailed}
      \cup { Payload(s, RawNumber(40)) : s \in StatusValues }
      \cup { Payload(StrStatus("running"), p) : p \in PercentValues }

\* ------------------------------------------------------------ pollUntilDone
\* Locals of one call (the counter `tick` only numbers the debug lines and
\* is left out, as is the text of those lines).
PollLocalsUngated(requireRunning, maxErr) ==
    [ errors |-> 0,
      seenRunning |-> TRUE,
      maxConsecutiveErrors |-> maxErr ]

PollLocalsAlwaysGated(requireRunning, maxErr) ==
    [ errors |-> 0,
      seenRunning |-> FALSE,
      maxConsecutiveErrors |-> maxErr ]

PollLocals(requireRunning, maxErr) ==
    [ errors |-> 0,
      seenRunning |-> ~requireRunning,
      maxConsecutiveErrors |-> maxErr ]

\* The consecutive-error counter after one pass: errors++ in the catch
\* (line 100), errors = 0 after a pass that neither threw nor returned
\* (line 98).
NextErrorsNeverReset(errors, caught, done) ==
    IF caught # "" THEN errors + 1 ELSE errors
NextErrors(errors, caught, done) ==
    IF caught # "" THEN errors + 1
    ELSE IF done THEN errors
    ELSE 0

\* One pass through the try/catch of the loop body, given the answer of
\* fetchStatus. `ticked`: onTick was called, with (percent, status).
\* `caught`: the message of the error the catch block received ("" if none).
\* `next`: "completed" (return), "throw" (rethrow out of the call, with
\* message `thrown`) or "sleep" (await the interval, then loop).
PollBody(loc, resp) ==
    LET status == safeLower(resp.status)
        percent == ClampPercent(resp.percent)
        jobFailed == resp.ok /\ status \in {"failed", "error"}
        caught == IF ~resp.ok THEN "Status fetch failed"
                  ELSE IF jobFailed THEN "Job failed on server"
                  ELSE ""
        seen == loc.seenRunning \/ (resp.ok /\ status = "running")
        done == resp.ok /\ ~jobFailed /\ status = "completed" /\ seen
        errs == NextErrors(loc.errors, caught, done)
        tooMany == caught # "" /\ errs >= loc.maxConsecutiveErrors
    IN  [ loc |-> [loc EXCEPT !.errors = errs,
                              !.seenRunning = IF caught = "" THEN seen ELSE @],
          ticked |-> resp.ok,
          percent |-> percent,
          status |-> status,
          caught |-> caught,
          next |-> IF done THEN "completed"
                   ELSE IF tooMany THEN "throw"
                   ELSE "sleep",
          thrown |-> IF tooMany THEN "Too many polling errors" ELSE "" ]


\* -------------------------------------------------------------------- state
VARIABLES
    \* --- one standalone call of pollUntilDone (SpecPoll)
    call,            \* pc, the options and the locals of the call
    callAbort,       \* opts.abortRef.current, owned by the caller
    callTicks,       \* number of onTick invocations
    lastTick,        \* the (percent, status) onTick received last
    callFetches,     \* number of fetchStatus invocations
    consecFails,     \* fetchStatus rejections in a row, up to now
    obsRunning,      \* some payload so far had normalized status 'running'
    history,         \* outcome class of the first HistLen fetches
    \* --- the DataGeneration component instance (Spec)
    steps,           \* useState steps: status and progress of the 4 phases
    overallProgress, \* useState overallProgress, in 1/100 of a point
    debugLog,        \* useState debugLog, most recent first
    jobIdRef,        \* useRef jobIdRef.current
    abortRef,        \* useRef abortRef.current
    runIdRef,        \* useRef runIdRef.current
    isGenerating,    \* useState isGenerating
    runs,            \* the locals and the await each invocation is at
    polls,           \* status fetches issued by the training pollers
    generatedData,   \* what the parent's setGeneratedData received last
    onNextCalls,     \* number of calls of the parent's onNext
    supersededAt,    \* the await each run was at when the next run started
    \* --- the props of the component and its exact debug log
    props,           \* file, model and parameters as the parent passes them
    fullLog,         \* useState debugLog, every line kept (SpecLog)
    pushes,          \* number of pushLog calls so far (SpecLog)
    \* --- the wizard that renders the component
    currentStep      \* the step SyntheticDataPlatform shows

callVars == <<call, callAbort, callTicks, lastTick, callFetches, consecFails,
              obsRunning, history>>
pipeVars == <<steps, overallProgress, debugLog, jobIdRef, abortRef, runIdRef,
              isGenerating, runs, polls, generatedData, onNextCalls,
              supersededAt>>
envVars == <<props, fullLog, pushes, currentStep>>
vars == <<callVars, pipeVars, envVars>>

\* ------------------------------------------- a standalone pollUntilDone call
NoTick == [percent |-> Num(0), status |-> "-"]
\* A fetch outcome as the history keeps it.
OutcomeClass(resp) ==
    IF resp.ok /\ safeLower(resp.status) \in {"running", "completed"}
    THEN safeLower(resp.status)
    ELSE "other"

\* Top of the while loop: the abort check, then the fetch is issued.
PollTopNoAbortCheck(abort) == "fetch"

PollTop(abort) == IF abort THEN "aborted" ELSE "fetch"

CallInit ==
    /\ call \in { [ pc |-> "start", requireRunning |-> rr, result |-> "none",
                    thrown |-> "", loc |-> PollLocals(rr, m) ]
                  : rr \in BOOLEAN, m \in {2, DefaultMaxConsecutiveErrors} }
    /\ callAbort \in BOOLEAN
    /\ callTicks = 0
    /\ lastTick = NoTick
    /\ callFetches = 0
    /\ consecFails = 0
    /\ obsRunning = FALSE
    /\ history = << >>

CallIdle ==
    /\ call = [ pc |-> "unused", requireRunning |-> FALSE, result |-> "none",
                thrown |-> "", loc |-> PollLocals(FALSE, 1) ]
    /\ callAbort = FALSE
    /\ callTicks = 0
    /\ lastTick = NoTick
    /\ callFetches = 0
    /\ consecFails = 0
    /\ obsRunning = FALSE
    /\ history = << >>

\* An iteration begins (the call is entered, or the interval elapsed).
CallIterate ==
    /\ call.pc \in {"start", "sleep"}
    /\ PollTop(callAbort) = "fetch" => callFetches < MaxCallFetches
    /\ LET to == PollTop(callAbort) IN
       /\ call' = IF to = "aborted"
                  THEN [call EXCEPT !.pc = "returned", !.result = "aborted"]
                  ELSE [call EXCEPT !.pc = "fetch"]
       /\ callFetches' = IF to = "fetch" THEN callFetches + 1 ELSE callFetches
    /\ UNCHANGED <<callAbort, callTicks, lastTick, consecFails, obsRunning,
                   history, pipeVars, envVars>>

\* fetchStatus settles.
CallFetchSettles ==
    /\ call.pc = "fetch"
    /\ \E resp \in CallResponses :
         LET b == PollBody(call.loc, resp) IN
         /\ call' = [call EXCEPT
                !.loc = b.loc,
                !.pc = IF b.next = "sleep" THEN "sleep" ELSE "returned",
                !.result = IF b.next = "completed" THEN "completed"
                           ELSE IF b.next = "throw" THEN "threw" ELSE @,
                !.thrown = b.thrown]
         /\ callTicks' = IF b.ticked THEN callTicks + 1 ELSE callTicks
         /\ lastTick' = IF b.ticked
                        THEN [percent |-> b.percent, status |-> b.status]
                        ELSE lastTick
         /\ consecFails' = IF resp.ok THEN 0 ELSE consecFails + 1
         /\ obsRunning' = (obsRunning \/ (resp.ok /\ b.status = "running"))
         /\ history' = IF Len(history) < HistLen
                       THEN Append(history, OutcomeClass(resp))
                       ELSE history
    /\ UNCHANGED <<callAbort, callFetches, pipeVars, envVars>>

\* The caller sets its abort flag while the call is in flight.
CallerAborts ==
    /\ call.pc \in {"start", "fetch", "sleep"}
    /\ ~callAbort
    /\ callAbort' = TRUE
    /\ UNCHANGED <<call, callTicks, lastTick, callFetches, consecFails,
                   obsRunning, history, pipeVars, envVars>>


\* --------------------------------------------------- runGenerationPipeline
\* The state of one invocation: the await it is suspended at (pc), its
\* locals (the loop counter p, jobId, the locals of its pollUntilDone call)
\* and a record of what the backend answered to its train request, to its
\* sanity re-check and to its generation request, and of the job id its
\* generation request named.
\*
\* The props: file is the dataset_id of the uploaded file or "null", model
\* the id of the selected model, samples the field parameters.samples.
DefaultSamples == 1000
DefaultProps == [file |-> "d1", model |-> "tabular-gan",
                 samples |-> DefaultSamples]
PropsValues ==
    [file : {"d1", "d2"}, model : {"tabular-gan", "tabular-dp"},
     samples : {DefaultSamples, 250000}]
NoProps == [file |-> "-", model |-> "-", samples |-> 0]

\* file?.dataset_id ?? ""
DatasetIdOf(file) == IF file = "null" THEN "" ELSE file

\* The inputs a run snapshots when it starts: lines 173-175.
Snapshot(pr) ==
    [datasetId |-> DatasetIdOf(pr.file), modelName |-> "adsgan",
     sampleCount |-> pr.samples]
NoSnapshot == [datasetId |-> "-", modelName |-> "-", sampleCount |-> 0]

\* The body of the train request: lines 207-210.
TrainBody(snap) ==
    [model_name |-> snap.modelName, dataset_id |-> snap.datasetId]
NoBody == [model_name |-> "-", dataset_id |-> "-"]

\* The count of the generation request: line 275.
MaxCount == 100000
GenerationCountUncapped(sampleCount) == sampleCount
GenerationCount(sampleCount) ==
    IF MaxCount < sampleCount THEN MaxCount ELSE sampleCount

\* started is the props as they were when the run started, snap what the run
\* kept of them, trainBody and count what its requests carried.
IdleRun ==
    [ pc |-> "idle", p |-> 0, jobId |-> "null",
      loc |-> PollLocals(FALSE, DefaultMaxConsecutiveErrors),
      trainResp |-> "none", sanity |-> "none", genResp |-> "none",
      genJob |-> "null",
      started |-> NoProps, snap |-> NoSnapshot, trainBody |-> NoBody,
      count |-> 0 ]

\* The job id the backend returns to the train request of run r.
JobId(r) == <<"j1", "j2", "j3", "j4">>[r]

\* Answers of POST /model/train: non-success (or a thrown fetch), a body
\* with a string job_id, a body without one.
TrainResponses == {"failed", "ok", "nojobid"}

\* Answers of GET /model/status/{id} while the training poller runs.
PipeResponses ==
    { FetchFailed,
      Payload(StrStatus("running"), RawNumber(80)),
      Payload(StrStatus("running"), RawText),
      Payload(StrStatus("pending"), RawAbsent),
      Payload(StrStatus("failed"), RawAbsent),
      Payload(StrStatus("completed"), RawNumber(100)) }

\* Answers of the status fetch of assertCompleted.
SanityResponses ==
    { FetchFailed,
      Payload(StrStatus("running"), RawNumber(80)),
      Payload(StrStatus("completed"), RawNumber(100)) }

\* Answers of GET /model/generate/{id}.
GenResponses == {"failed", "ok"}

InitialSteps == [i \in 0..3 |-> [status |-> "pending", progress |-> Num(0)]]

\* setSteps(prev => prev.map((s, i) => i === k ? {...s, <fields>} : s))
SetStatus(st, k, status) == [st EXCEPT ![k].status = status]
SetProgress(st, k, progress) == [st EXCEPT ![k].progress = progress]

\* The values given to setOverallProgress, in 1/100 of a point:
\* base + (percent / 100) * weight
Weighted(base, percent, weight) ==
    IF percent.nan THEN NaN ELSE Num(100 * base + percent.val * weight)

\* pushLog: the new line first, then prev.slice(0, 199). `by` tags the line
\* with the invocation that pushed it. The model keeps the LogWindow most
\* recent lines of the (at most LogCap) lines the component keeps.
LogKept == IF LogWindow < LogCap THEN LogWindow ELSE LogCap
pushLog(log, by, line) ==
    <<[by |-> by, line |-> line]>>
        \o SubSeq(log, 1, IF Len(log) < LogKept - 1 THEN Len(log) ELSE LogKept - 1)

\* if (abortRef.current || runIdRef.current !== myRun) return
Checkpoint(r) == abortRef \/ runIdRef # r

\* The invocation returns: its locals are gone.
ReturnAsRetry(run) == [run EXCEPT !.pc = "train_post"]
Return(run) ==
    [IdleRun EXCEPT !.pc = "returned", !.trainResp = run.trainResp,
                    !.sanity = run.sanity, !.genResp = run.genResp]
Returned(r) == [runs EXCEPT ![r] = Return(runs[r])]

\* The awaited calls that sit inside a try block with a catch: the train
\* request (lines 203-221), pollUntilDone (225-250), assertCompleted
\* (253-263) and the generation request (276-292). An error thrown by a call
\* outside of them rejects the promise of runGenerationPipeline.
TryBlocksWithoutSanity == {"train", "poll", "generate"}
TryBlocks == {"train", "poll", "sanity", "generate"}
Escapes(site) == site \notin TryBlocks
Thrown(site, run) ==
    IF Escapes(site) THEN [Return(run) EXCEPT !.pc = "rejected"] ELSE run

\* What the catch of the train request does to steps: line 219.
TrainPostFailedStepsUnmarked(st) == st
TrainPostFailedSteps(st) == SetStatus(st, 1, "error")

\* What the 'aborted' outcome of the poller does to steps: lines 238-241,
\* nothing.
PollAbortedStepsAsFailure(st) == SetStatus(st, 1, "error")
PollAbortedSteps(st) == st

\* The poller returned 'completed': lines 242-243.
TrainingCompletedSteps(st) ==
    SetProgress(SetStatus(st, 1, "completed"), 1, Num(100))
TrainingCompletedOverallWrongWeight ==
    Num(100 * (WPreprocessing + WGeneration))
TrainingCompletedOverall == Num(100 * (WPreprocessing + WTraining))

\* What a failed sanity re-check does to steps: line 257.
SanityFailedStepsReopens(st) == SetStatus(st, 1, "running")
SanityFailedSteps(st) == SetStatus(st, 1, "error")

\* What the catch of the generation request does to steps: line 290.
GenerationFailedStepsUnmarked(st) == st
GenerationFailedSteps(st) == SetStatus(st, 2, "error")

\* The reset of steps at the start of a run (lines 158-163), then line 181:
\* phase 0 running at 0, every other phase pending with its progress kept.
ResetStepsOmitted(st) == st
ResetSteps(st) == InitialSteps
MarkPreprocessingRunning(st) ==
    [k \in 0..3 |->
        [status |-> IF k = 0 THEN "running" ELSE "pending",
         progress |-> IF k = 0 THEN Num(0) ELSE st[k].progress]]

\* runGenerationPipeline is invoked: lines 154-184, up to the first 100 ms
\* delay of the preprocessing loop. The checkpoint of line 183 passes: the
\* flag was just cleared and the run id just taken.
RunPipeline ==
    /\ runIdRef < MaxRuns
    /\ LET myRun == runIdRef + 1 IN
       /\ abortRef' = FALSE
       /\ runIdRef' = myRun
       /\ steps' = MarkPreprocessingRunning(ResetSteps(steps))
       /\ overallProgress' = Num(0)
       /\ debugLog' = pushLog(<< >>, myRun, "started")
       /\ jobIdRef' = "null"
       /\ runs' = [runs EXCEPT ![myRun] =
                       [IdleRun EXCEPT !.pc = "pre_delay",
                                       !.started = props,
                                       !.snap = Snapshot(props)]]
       /\ supersededAt' = [r \in 1..MaxRuns |->
                              IF r = myRun - 1 THEN runs[r].pc
                              ELSE supersededAt[r]]
    /\ UNCHANGED <<polls, generatedData, onNextCalls, callVars, envVars>>

\* The pipeline is started, whether or not an earlier invocation is still
\* suspended (the onClick handler of lines 511-514 without the guard of
\* line 487).
StartRun ==
    /\ isGenerating' = TRUE
    /\ RunPipeline

\* The Start button is clicked: lines 487 and 511-514. The button is only
\* rendered while isGenerating is false.
ClickStart ==
    /\ ~isGenerating
    /\ isGenerating' = TRUE
    /\ RunPipeline

\* The parent re-renders the component with other props: line 112.
PropsChange ==
    /\ \E pr \in PropsValues \ {props} : props' = pr
    /\ UNCHANGED <<fullLog, pushes, currentStep, pipeVars, callVars>>

\* The cancellation flag is set while a run is in flight.
AbortRequested ==
    /\ \E r \in 1..MaxRuns : runs[r].pc \notin {"idle", "returned"}
    /\ ~abortRef
    /\ abortRef' = TRUE
    /\ UNCHANGED <<steps, overallProgress, debugLog, jobIdRef, runIdRef,
                   isGenerating, runs, polls, generatedData, onNextCalls,
                   supersededAt, callVars, envVars>>

\* A 100 ms delay of the preprocessing loop elapses: lines 185-186, then
\* either the next iteration up to its delay, or lines 188-191.
PreDelayResume(r) ==
    /\ runs[r].pc = "pre_delay"
    /\ LET p == runs[r].p
           st == SetProgress(steps, 0, Num(p))
       IN
       IF p + 20 <= 100
       THEN /\ steps' = st
            /\ overallProgress' = Weighted(0, Num(p), WPreprocessing)
            /\ runs' = IF Checkpoint(r) THEN Returned(r)
                       ELSE [runs EXCEPT ![r].p = p + 20]
            /\ UNCHANGED debugLog
       ELSE /\ steps' = SetProgress(SetStatus(st, 0, "completed"), 0, Num(100))
            /\ overallProgress' = Num(100 * WPreprocessing)
            /\ debugLog' = pushLog(debugLog, r, "preprocessing completed")
            /\ runs' = [runs EXCEPT ![r].pc = "pre_done_delay"]
    /\ UNCHANGED <<polls, jobIdRef, abortRef, runIdRef, isGenerating,
                   generatedData, onNextCalls, supersededAt, callVars, envVars>>

\* The 400 ms delay after preprocessing elapses: lines 195-211, the training
\* phase is marked running and the train request is issued.
PreDoneResume(r) ==
    /\ runs[r].pc = "pre_done_delay"
    /\ steps' = SetProgress(SetStatus(steps, 1, "running"), 1, Num(0))
    /\ runs' = [runs EXCEPT ![r].pc = "train_post",
                            ![r].trainBody = TrainBody(runs[r].snap)]
    /\ UNCHANGED <<polls, overallProgress, debugLog, jobIdRef, abortRef,
                   runIdRef, isGenerating, generatedData, onNextCalls,
                   supersededAt, callVars, envVars>>

\* The train request settles: lines 212-221, then pollUntilDone is entered
\* (lines 225-237 and 59-82) up to its first fetch.
TrainSettlesWith(r, resp) ==
    /\ runs[r].pc = "train_post"
    /\   IF resp = "failed"
         THEN /\ debugLog' = IF Escapes("train") THEN debugLog
                              ELSE pushLog(debugLog, r, "training POST failed")
              /\ steps' = IF Escapes("train") THEN steps
                           ELSE TrainPostFailedSteps(steps)
              /\ runs' = [runs EXCEPT ![r] =
                            Thrown("train",
                                   Return([@ EXCEPT !.trainResp = resp]))]
              /\ UNCHANGED <<jobIdRef, polls>>
         ELSE LET jobId == IF resp = "ok" THEN JobId(r) ELSE ""
                  log1 == pushLog(debugLog, r, "training started")
              IN
              /\ jobIdRef' = jobId
              /\ IF PollTop(abortRef) = "aborted"
                 THEN /\ steps' = PollAbortedSteps(steps)
                      /\ debugLog' =
                           pushLog(pushLog(log1, r, "training poll: aborted by caller"),
                                   r, "training polling aborted")
                      /\ runs' = [runs EXCEPT
                             ![r] = Return([@ EXCEPT !.trainResp = resp])]
                      /\ UNCHANGED polls
                 ELSE /\ debugLog' = log1
                      /\ UNCHANGED steps
                      /\ polls' = polls + 1
                      /\ runs' = [runs EXCEPT
                             ![r].pc = "poll_fetch",
                             ![r].trainResp = resp,
                             ![r].jobId = jobId,
                             ![r].loc = PollLocals(FALSE, DefaultMaxConsecutiveErrors)]
    /\ UNCHANGED <<overallProgress, abortRef, runIdRef, isGenerating,
                   generatedData, onNextCalls, supersededAt, callVars, envVars>>

TrainSettles(r) == \E resp \in TrainResponses : TrainSettlesWith(r, resp)

\* onTick of the training poller: lines 228-233.
TrainingTickSteps(st, percent) == SetProgress(st, 1, percent)
TrainingTickOverall(percent) == Weighted(WPreprocessing, percent, WTraining)

\* A status fetch of the training poller settles: lines 82-108 with the
\* onTick and debug callbacks of lines 228-236, then lines 238-250 when the
\* poller returns or throws.
PollSettlesWith(r, resp) ==
    /\ runs[r].pc = "poll_fetch"
    /\   LET b == PollBody(runs[r].loc, resp)
             st1 == IF b.ticked THEN TrainingTickSteps(steps, b.percent) ELSE steps
             ov1 == IF b.ticked THEN TrainingTickOverall(b.percent)
                    ELSE overallProgress
             log1 == IF b.ticked THEN pushLog(debugLog, r, "training [poll]")
                     ELSE debugLog
             log2 == IF b.caught # "" THEN pushLog(log1, r, "training [poll error]")
                     ELSE log1
         IN
         CASE b.next = "sleep" ->
                /\ steps' = st1
                /\ overallProgress' = ov1
                /\ debugLog' = log2
                /\ runs' = [runs EXCEPT ![r].pc = "poll_sleep", ![r].loc = b.loc]
           [] b.next = "completed" ->
                /\ steps' = TrainingCompletedSteps(st1)
                /\ overallProgress' = TrainingCompletedOverall
                /\ debugLog' = pushLog(log2, r, "training completed")
                /\ runs' = [runs EXCEPT ![r].pc = "train_done_delay",
                                        ![r].loc = b.loc]
           [] b.next = "throw" ->
                /\ steps' = IF Escapes("poll") THEN st1
                             ELSE SetStatus(st1, 1, "error")
                /\ overallProgress' = ov1
                /\ debugLog' = IF Escapes("poll") THEN log2
                                ELSE pushLog(log2, r, "training polling failed")
                /\ runs' = [runs EXCEPT ![r] = Thrown("poll", Return(@))]
    /\ UNCHANGED <<polls, jobIdRef, abortRef, runIdRef, isGenerating,
                   generatedData, onNextCalls, supersededAt, callVars, envVars>>

PollSettles(r) == \E resp \in PipeResponses : PollSettlesWith(r, resp)

\* The polling interval elapses: lines 74-82, and lines 238-240 on 'aborted';
\* fetched is the count of status fetches once the next one is issued.
PollWakesCounting(r, fetched) ==
    /\ runs[r].pc = "poll_sleep"
    /\ IF PollTop(abortRef) = "aborted"
       THEN /\ debugLog' =
                 pushLog(pushLog(debugLog, r, "training poll: aborted by caller"),
                         r, "training polling aborted")
            /\ steps' = PollAbortedSteps(steps)
            /\ runs' = Returned(r)
            /\ UNCHANGED polls
       ELSE /\ polls' = fetched
            /\ runs' = [runs EXCEPT ![r].pc = "poll_fetch"]
            /\ UNCHANGED <<debugLog, steps>>
    /\ UNCHANGED <<overallProgress, jobIdRef, abortRef, runIdRef, isGenerating,
                   generatedData, onNextCalls, supersededAt, callVars, envVars>>

\* The same within the budget of status fetches.
PollWakes(r) ==
    /\ PollTop(abortRef) = "fetch" => polls < MaxPolls
    /\ PollWakesCounting(r, polls + 1)

\* The 400 ms delay after training elapses: line 254, assertCompleted
\* fetches the status of jobIdRef.current.
TrainDoneResume(r) ==
    /\ runs[r].pc = "train_done_delay"
    /\ runs' = [runs EXCEPT ![r].pc = "sanity"]
    /\ UNCHANGED <<polls, steps, overallProgress, debugLog, jobIdRef, abortRef,
                   runIdRef, isGenerating, generatedData, onNextCalls,
                   supersededAt, callVars, envVars>>

\* assertCompleted: lines 147-150, on the payload of its fetch.
assertCompleted(payload) == safeLower(payload.status) = "completed"

\* What lines 253-263 do with the settled sanity re-check: "stop" (phase 2
\* marked error, return) or "proceed" (to the checkpoint of line 265).
SanityVerdict(resp) ==
    IF ~resp.ok THEN "proceed"
    ELSE IF assertCompleted(resp) THEN "proceed"
    ELSE "stop"

\* The sanity re-check settles: lines 255-263, the checkpoint of line 265,
\* then lines 269-277: generation is marked running and the generation
\* request is issued for jobIdRef.current.
SanitySettlesWith(r, resp) ==
    /\ runs[r].pc = "sanity"
    /\   LET seen == IF ~resp.ok THEN "rejected"
                     ELSE IF assertCompleted(resp) THEN "completed"
                     ELSE "other"
         IN
         IF ~resp.ok /\ Escapes("sanity")
         THEN /\ runs' = [runs EXCEPT ![r] =
                            Thrown("sanity", Return([@ EXCEPT !.sanity = seen]))]
              /\ UNCHANGED <<debugLog, steps>>
         ELSE IF SanityVerdict(resp) = "stop"
         THEN /\ debugLog' = pushLog(debugLog, r, "sanity check FAILED")
              /\ steps' = SanityFailedSteps(steps)
              /\ runs' = [runs EXCEPT ![r] = Return([@ EXCEPT !.sanity = seen])]
         ELSE /\ debugLog' = pushLog(debugLog, r,
                                     IF resp.ok THEN "sanity check PASSED"
                                     ELSE "sanity check error")
              /\ IF Checkpoint(r)
                 THEN /\ runs' = [runs EXCEPT
                                 ![r] = Return([@ EXCEPT !.sanity = seen])]
                      /\ UNCHANGED steps
                 ELSE /\ steps' = SetProgress(SetStatus(steps, 2, "running"),
                                              2, Num(0))
                      /\ runs' = [runs EXCEPT ![r].pc = "gen_post",
                                              ![r].sanity = seen,
                                              ![r].genJob = jobIdRef,
                                              ![r].count =
                                                GenerationCount(
                                                  runs[r].snap.sampleCount)]
    /\ UNCHANGED <<polls, overallProgress, jobIdRef, abortRef, runIdRef,
                   isGenerating, generatedData, onNextCalls, supersededAt,
                   callVars, envVars>>

SanitySettles(r) == \E resp \in SanityResponses : SanitySettlesWith(r, resp)

\* The generation request settles: lines 278-292, then the first checkpoint
\* of the validation loop (line 330) up to its 100 ms delay.
GenSettlesWith(r, resp) ==
    /\ runs[r].pc = "gen_post"
    /\   IF resp = "failed"
         THEN /\ debugLog' = IF Escapes("generate") THEN debugLog
                              ELSE pushLog(debugLog, r, "generation POST failed")
              /\ steps' = IF Escapes("generate") THEN steps
                           ELSE GenerationFailedSteps(steps)
              /\ runs' = [runs EXCEPT ![r] =
                            Thrown("generate",
                                   Return([@ EXCEPT !.genResp = resp]))]
              /\ UNCHANGED generatedData
         ELSE /\ generatedData' = [by |-> r, job_id |-> runs[r].genJob]
              /\ debugLog' = pushLog(debugLog, r, "generation POST ok")
              /\ runs' = IF Checkpoint(r)
                         THEN [runs EXCEPT ![r] = Return([@ EXCEPT !.genResp = resp])]
                         ELSE [runs EXCEPT ![r].pc = "val_delay", ![r].p = 0,
                                           ![r].genResp = resp]
              /\ UNCHANGED steps
    /\ UNCHANGED <<polls, overallProgress, jobIdRef, abortRef, runIdRef,
                   isGenerating, onNextCalls, supersededAt, callVars, envVars>>

GenSettles(r) == \E resp \in GenResponses : GenSettlesWith(r, resp)

\* A 100 ms delay of the validation loop elapses: lines 332-333, then either
\* the next iteration up to its delay, or lines 335-338.
ValDelayResume(r) ==
    /\ runs[r].pc = "val_delay"
    /\ LET p == runs[r].p
           st == SetProgress(steps, 3, Num(p))
       IN
       IF p + 20 <= 100
       THEN /\ steps' = st
            /\ overallProgress' =
                   Weighted(WPreprocessing + WTraining + WGeneration, Num(p),
                            WValidation)
            /\ runs' = IF Checkpoint(r) THEN Returned(r)
                       ELSE [runs EXCEPT ![r].p = p + 20]
            /\ UNCHANGED debugLog
       ELSE /\ steps' = SetProgress(SetStatus(st, 3, "completed"), 3, Num(100))
            /\ overallProgress' = Num(100 * 100)
            /\ debugLog' = pushLog(debugLog, r, "validation completed")
            /\ runs' = [runs EXCEPT ![r].pc = "val_done_delay"]
    /\ UNCHANGED <<polls, jobIdRef, abortRef, runIdRef, isGenerating,
                   generatedData, onNextCalls, supersededAt, callVars, envVars>>

\* onNext of the component: synthetic-data-platform.tsx, lines 76-78.
handleResultsView == "results"

\* The final 400 ms delay elapses: line 339, onNext().
ValDoneResume(r) ==
    /\ runs[r].pc = "val_done_delay"
    /\ onNextCalls' = onNextCalls + 1
    /\ currentStep' = handleResultsView
    /\ runs' = Returned(r)
    /\ UNCHANGED <<polls, steps, overallProgress, debugLog, jobIdRef, abortRef,
                   runIdRef, isGenerating, generatedData, supersededAt,
                   callVars, props, fullLog, pushes>>

\* The component after its first render and the mount effect (lines 113-141
\* and 343-360); no standalone poller call is in play.
MountedAt(step, pr) ==
    /\ CallIdle
    /\ props = pr
    /\ fullLog = << >>
    /\ pushes = 0
    /\ currentStep = step
    /\ steps = InitialSteps
    /\ overallProgress = Num(0)
    /\ debugLog = << >>
    /\ jobIdRef = "null"
    /\ abortRef = FALSE
    /\ runIdRef = 0
    /\ isGenerating = FALSE
    /\ runs = [r \in 1..MaxRuns |-> IdleRun]
    /\ polls = 0
    /\ generatedData = [by |-> 0, job_id |-> "null"]
    /\ onNextCalls = 0
    /\ supersededAt = [r \in 1..MaxRuns |-> "none"]

\* The component is rendered while the wizard shows the step 'generate':
\* synthetic-data-platform.tsx, line 274.
MountedWith(pr) == MountedAt("generate", pr)

Init == MountedWith(DefaultProps)

Next ==
    \/ StartRun
    \/ \E r \in 1..MaxRuns : PreDelayResume(r)
    \/ \E r \in 1..MaxRuns : PreDoneResume(r)
    \/ \E r \in 1..MaxRuns : TrainSettles(r)
    \/ \E r \in 1..MaxRuns : PollSettles(r)
    \/ \E r \in 1..MaxRuns : PollWakes(r)
    \/ \E r \in 1..MaxRuns : TrainDoneResume(r)
    \/ \E r \in 1..MaxRuns : SanitySettles(r)
    \/ \E r \in 1..MaxRuns : GenSettles(r)
    \/ \E r \in 1..MaxRuns : ValDelayResume(r)
    \/ \E r \in 1..MaxRuns : ValDoneResume(r)

Spec == Init /\ [][Next]_vars

\* A continuation of some invocation resumes.
Continue ==
    \/ \E r \in 1..MaxRuns : PreDelayResume(r)
    \/ \E r \in 1..MaxRuns : PreDoneResume(r)
    \/ \E r \in 1..MaxRuns : TrainSettles(r)
    \/ \E r \in 1..MaxRuns : PollSettles(r)
    \/ \E r \in 1..MaxRuns : PollWakes(r)
    \/ \E r \in 1..MaxRuns : TrainDoneResume(r)
    \/ \E r \in 1..MaxRuns : SanitySettles(r)
    \/ \E r \in 1..MaxRuns : GenSettles(r)
    \/ \E r \in 1..MaxRuns : ValDelayResume(r)
    \/ \E r \in 1..MaxRuns : ValDoneResume(r)

NextUI == ClickStart \/ Continue

SpecUI == Init /\ [][NextUI]_vars

NextAbort == ClickStart \/ Continue \/ AbortRequested

SpecAbort == Init /\ [][NextAbort]_vars

\* runGenerationPipeline is invoked again after the earlier invocation has
\* returned.
StartAgain ==
    /\ \A r \in 1..MaxRuns : runs[r].pc \in {"idle", "returned"}
    /\ StartRun

NextAgain == StartAgain \/ Continue \/ AbortRequested

SpecAgain == Init /\ [][NextAgain]_vars

\* A run of the UI whose backend behaves: the train and the generation
\* request succeed, and the status endpoint answers anything to the first
\* MaxPolls fetches of the poller and 'completed' to every later one.
StatusCompleted == Payload(StrStatus("completed"), RawNumber(100))
StatusAnswers == IF polls <= MaxPolls THEN PipeResponses ELSE {StatusCompleted}

ContinueLive ==
    \/ \E r \in 1..MaxRuns : PreDelayResume(r)
    \/ \E r \in 1..MaxRuns : PreDoneResume(r)
    \/ \E r \in 1..MaxRuns : TrainSettlesWith(r, "ok")
    \/ \E r \in 1..MaxRuns : \E resp \in StatusAnswers : PollSettlesWith(r, resp)
    \/ \E r \in 1..MaxRuns :
          PollWakesCounting(r, IF polls <= MaxPolls THEN polls + 1 ELSE polls)
    \/ \E r \in 1..MaxRuns : TrainDoneResume(r)
    \/ \E r \in 1..MaxRuns : SanitySettles(r)
    \/ \E r \in 1..MaxRuns : GenSettlesWith(r, "ok")
    \/ \E r \in 1..MaxRuns : ValDelayResume(r)
    \/ \E r \in 1..MaxRuns : ValDoneResume(r)

NextLive == ClickStart \/ ContinueLive

\* Every request settles and every delay elapses.
SpecLive == Init /\ [][NextLive]_vars /\ WF_vars(ContinueLive)

\* ------------------------------------------------ SyntheticDataPlatform
\* The wizard around the component. props holds the wizard's uploadedFile,
\* selectedModel and parameters, which it passes down as file, model and
\* parameters; generatedData.by = 0 stands for generatedData = null. The
\* state of the component is that of the DataGeneration instance whose Start
\* button is clicked first; its pipeline goes on when the wizard leaves the
\* step 'generate' and the instance is unmounted, and it still holds the
\* wizard's onNext and setGeneratedData.
WorkflowSteps == <<"upload", "model", "parameters", "generate", "results">>

\* steps.indexOf(step)
StepIndex(step) == CHOOSE i \in 1..Len(WorkflowSteps) : WorkflowSteps[i] = step

\* useState of lines 49-58 before any upload.
NullProps == [file |-> "null", model |-> "null", samples |-> DefaultSamples]

\* FileUpload hands a file over: lines 61-64, rendered at line 234.
handleFileUpload(file) ==
    /\ currentStep = "upload"
    /\ props' = [props EXCEPT !.file = file]
    /\ currentStep' = "model"
    /\ UNCHANGED <<fullLog, pushes, pipeVars, callVars>>

\* ModelSelection hands a model over: lines 66-69, rendered at line 245.
handleModelSelect(model) ==
    /\ currentStep = "model"
    /\ props.file # "null"
    /\ props' = [props EXCEPT !.model = model]
    /\ currentStep' = "parameters"
    /\ UNCHANGED <<fullLog, pushes, pipeVars, callVars>>

\* ParameterControls reports a change: setParameters, line 268.
setParameters(samples) ==
    /\ currentStep = "parameters"
    /\ props.model # "null"
    /\ props' = [props EXCEPT !.samples = samples]
    /\ UNCHANGED <<currentStep, fullLog, pushes, pipeVars, callVars>>

\* ParameterControls continues: lines 71-74, rendered at line 257.
handleParametersSet(samples) ==
    /\ currentStep = "parameters"
    /\ props.model # "null"
    /\ props' = [props EXCEPT !.samples = samples]
    /\ currentStep' = "generate"
    /\ UNCHANGED <<fullLog, pushes, pipeVars, callVars>>

\* The test of handleStepClick: line 130.
CanNavigateAnywhere(target, current) == TRUE
CanNavigate(target, current) == StepIndex(target) <= StepIndex(current)

\* A step of the sidebar is clicked: lines 124-133.
handleStepClick(step) ==
    /\ currentStep' = IF CanNavigate(step, currentStep) THEN step
                      ELSE currentStep
    /\ UNCHANGED <<props, fullLog, pushes, pipeVars, callVars>>

\* 'New Project' or the reset of the results page: lines 100-106, rendered
\* at lines 202-204 and 300.
resetWorkflow ==
    /\ currentStep # "upload"
    /\ currentStep' = "upload"
    /\ props' = [props EXCEPT !.file = "null", !.model = "null"]
    /\ generatedData' = [by |-> 0, job_id |-> "null"]
    /\ UNCHANGED <<fullLog, pushes, steps, overallProgress, debugLog, jobIdRef,
                   abortRef, runIdRef, isGenerating, runs, polls, onNextCalls,
                   supersededAt, callVars>>

\* The Start button of the component the wizard renders at 'generate'.
WizardStart == currentStep = "generate" /\ ClickStart

WizardInit == MountedAt("upload", NullProps)

NextWizard ==
    \/ \E file \in {"d1", "d2"} : handleFileUpload(file)
    \/ \E model \in {"tabular-gan", "tabular-dp"} : handleModelSelect(model)
    \/ \E samples \in {DefaultSamples, 250000} : setParameters(samples)
    \/ \E samples \in {DefaultSamples, 250000} : handleParametersSet(samples)
    \/ \E i \in 1..Len(WorkflowSteps) : handleStepClick(WorkflowSteps[i])
    \/ resetWorkflow
    \/ WizardStart
    \/ Continue

SpecWizard == WizardInit /\ [][NextWizard]_vars

\* pushLog on the exact log: lines 131-134, the new line first, then
\* prev.slice(0, 199).
PushLineKeepingCap(log, line) ==
    <<line>> \o SubSeq(log, 1, IF Len(log) < LogCap THEN Len(log) ELSE LogCap)
PushLine(log, line) ==
    <<line>>
        \o SubSeq(log, 1, IF Len(log) < LogCap - 1 THEN Len(log) ELSE LogCap - 1)

\* pushLog is called; the line is numbered by the count of calls so far.
LogPush ==
    /\ pushes < MaxPushes
    /\ pushes' = pushes + 1
    /\ fullLog' = PushLine(fullLog, pushes + 1)
    /\ UNCHANGED <<props, currentStep, pipeVars, callVars>>

\* A run starts: setDebugLog([]) at line 165, then the pushLog of line 177.
LogStart ==
    /\ pushes < MaxPushes
    /\ pushes' = pushes + 1
    /\ fullLog' = PushLine(<< >>, pushes + 1)
    /\ UNCHANGED <<props, currentStep, pipeVars, callVars>>

LogNext == LogPush \/ LogStart

SpecLog == Init /\ [][LogNext]_vars

\* The component mounted with any props, which the parent may change.
InitProps == \E pr \in PropsValues : MountedWith(pr)

NextProps == ClickStart \/ Continue \/ PropsChange

SpecProps == InitProps /\ [][NextProps]_vars

SpecPollInit ==
    /\ CallInit
    /\ props = DefaultProps
    /\ fullLog = << >>
    /\ pushes = 0
    /\ currentStep = "generate"
    /\ steps = InitialSteps
    /\ overallProgress = Num(0)
    /\ debugLog = << >>
    /\ jobIdRef = "null"
    /\ abortRef = FALSE
    /\ runIdRef = 0
    /\ isGenerating = FALSE
    /\ runs = [r \in 1..MaxRuns |-> IdleRun]
    /\ polls = 0
    /\ generatedData = [by |-> 0, job_id |-> "null"]
    /\ onNextCalls = 0
    /\ supersededAt = [r \in 1..MaxRuns |-> "none"]

PollNext == CallIterate \/ CallFetchSettles \/ CallerAborts

SpecPoll == SpecPollInit /\ [][PollNext]_vars

\* The same call when every fetch and every delay eventually resolves: the
\* promise of line 82 settles and the timer of line 108 fires.
SpecPollFair ==
    /\ SpecPollInit
    /\ [][PollNext]_vars
    /\ WF_vars(CallFetchSettles)
    /\ WF_vars(CallIterate)


\* ------------------------------------------------ properties of pollUntilDone
JobFailedStatuses == {"failed", "error"}

\* C1 (as claimed): when a fetch resolves with a status that normalizes to
\* 'failed' or 'error', the call ends on that iteration and the error that
\* reaches the caller is 'Job failed on server'.
C1_JobFailedReachesCaller ==
    [][ ( /\ call.pc = "fetch"
          /\ call'.pc # "fetch"
          /\ callTicks' = callTicks + 1
          /\ lastTick'.status \in JobFailedStatuses )
        => ( /\ call'.pc = "returned"
             /\ call'.result = "threw"
             /\ call'.thrown = "Job failed on server" ) ]_vars

\* C4: with requireRunning=true the call returns 'completed' only after a
\* payload with status 'running' was fetched; on the statuses
\* [completed, running, completed] the first fetch does not end the call
\* with 'completed' (nor with an error), and the third does.
C4_CompletedOnlyAfterRunning ==
    /\ (call.requireRunning /\ call.result = "completed") => obsRunning
    /\ ( /\ call.requireRunning
         /\ callFetches = 1
         /\ history = <<"completed">> )
       => call.result \notin {"completed", "threw"}
    /\ ( /\ call.requireRunning
         /\ callFetches = 3
         /\ Len(history) >= 3
         /\ SubSeq(history, 1, 3) = <<"completed", "running", "completed">> )
       => call.pc = "returned" /\ call.result = "completed"

C4_Witness ==
    /\ call.requireRunning
    /\ callFetches = 3
    /\ Len(history) >= 3
    /\ SubSeq(history, 1, 3) = <<"completed", "running", "completed">>
    /\ call.result = "completed"

\* C5 (as claimed): the call throws 'Too many polling errors' exactly when
\* the number of fetchStatus rejections in a row reaches
\* maxConsecutiveErrors.
C5_ThrowsExactlyAtThreshold ==
    (call.result = "threw" /\ call.thrown = "Too many polling errors")
      <=> (consecFails >= call.loc.maxConsecutiveErrors)

\* C6: an iteration that begins with the abort flag set returns 'aborted':
\* it calls neither fetchStatus nor onTick and throws nothing.
C6_AbortReturnsWithoutFetch ==
    [][ ( /\ call.pc \in {"start", "sleep"}
          /\ callAbort
          /\ call' # call )
        => ( /\ call'.pc = "returned"
             /\ call'.result = "aborted"
             /\ call'.thrown = ""
             /\ callFetches' = callFetches
             /\ callTicks' = callTicks ) ]_vars

C6_Witness ==
    /\ call.result = "aborted"
    /\ callFetches = 0
    /\ callTicks = 0

\* C7 (as claimed): every percent onTick receives is a number in [0,100].
C7_TickPercentInRange ==
    callTicks > 0 =>
        /\ ~lastTick.percent.nan
        /\ lastTick.percent.val >= 0
        /\ lastTick.percent.val <= 100


\* ---------------------------------------- properties of runGenerationPipeline
\* The awaits that are fixed delays: the 100 ms delay of the preprocessing
\* and validation loops and the 400 ms delay after a phase.
FixedDelays ==
    {"pre_delay", "pre_done_delay", "train_done_delay", "val_delay",
     "val_done_delay"}

\* Run r takes a step.
Resumes(r) == runs'[r] # runs[r]

\* C2 (as claimed): a run that was suspended in a fixed delay when the next
\* run started writes nothing when it resumes: steps, overallProgress,
\* jobIdRef and the debug log stay as they are.
C2_SupersededRunWritesNothing ==
    [][ \A r \in 1..MaxRuns :
          (supersededAt[r] \in FixedDelays /\ Resumes(r))
            => UNCHANGED <<steps, overallProgress, jobIdRef, debugLog>> ]_vars

\* C3 (as claimed): once a newer run has started, a status fetch settling in
\* the training poller of an earlier run (the poller then sleeping again, so
\* that its tick is all it delivered) changes neither the training step's
\* progress nor overallProgress.
C3_StaleTickDiscarded ==
    [][ \A r \in 1..MaxRuns :
          ( /\ r < runIdRef
            /\ runs[r].pc = "poll_fetch"
            /\ runs'[r].pc = "poll_sleep" )
            => ( /\ steps'[1].progress = steps[1].progress
                 /\ overallProgress' = overallProgress ) ]_vars

\* C8 (as claimed): while a single run is the only one ever started, the values
\* written to overallProgress never go down.
C8_OverallProgressNonDecreasing ==
    [][ ( /\ runIdRef = 1
          /\ runIdRef' = 1
          /\ ~overallProgress.nan
          /\ ~overallProgress'.nan )
        => overallProgress'.val >= overallProgress.val ]_vars

\* C9 (as claimed): when the sanity re-check settles, the generation request
\* is issued only if it read 'completed'; on any other outcome (another
\* status, a failed fetch) the run returns without issuing it.
C9_GenerationOnlyAfterConfirmedCompleted ==
    [][ \A r \in 1..MaxRuns :
          (runs[r].pc = "sanity" /\ Resumes(r))
            => ( /\ runs'[r].pc = "gen_post" => runs'[r].sanity = "completed"
                 /\ runs'[r].sanity # "completed" => runs'[r].pc = "returned" )
      ]_vars

\* C10 (as claimed): when the train request succeeds with a body that has no
\* string job_id, the training phase is marked 'error' and the run returns
\* without a status fetch.
C10_MissingJobIdIsFatal ==
    [][ \A r \in 1..MaxRuns :
          ( /\ runs[r].pc = "train_post"
            /\ Resumes(r)
            /\ runs'[r].trainResp = "nojobid" )
            => ( /\ runs'[r].pc = "returned"
                 /\ steps'[1].status = "error"
                 /\ polls' = polls ) ]_vars

-----------------------------------------------------------------------------
(* Claims about one run of the pipeline, checked under SpecUI.             *)

\* The status of each of the four phases, in order.
Statuses ==
    <<steps[0].status, steps[1].status, steps[2].status, steps[3].status>>

\* A run that has returned never resumes.
ReturnedIsFinal ==
    \A r \in 1..MaxRuns : runs[r].pc = "returned" => runs'[r] = runs[r]

\* C11: when the train request fails, the handler marks training 'error'
\* and returns: preprocessing is still 'completed', generation and
\* validation are still 'pending', overallProgress is still 25, no artifact
\* is delivered, onNext is not called, and the run, having returned, issues
\* no generation request and changes nothing afterwards.
C11_TrainFailureStopsRun ==
    [][ /\ ReturnedIsFinal
        /\ \A r \in 1..MaxRuns :
             /\ ( /\ runs[r].pc = "train_post"
                  /\ Resumes(r)
                  /\ runs'[r].trainResp = "failed" )
                => /\ runs'[r].pc = "returned"
                   /\ Statuses' = <<"completed", "error", "pending", "pending">>
                   /\ overallProgress' = Num(100 * WPreprocessing)
                   /\ UNCHANGED <<generatedData, onNextCalls>>
             /\ ( /\ runs[r].pc = "returned"
                  /\ runs[r].trainResp = "failed"
                  /\ runIdRef' = runIdRef )
                => UNCHANGED <<steps, overallProgress, generatedData,
                               onNextCalls>> ]_vars

C11_Witness ==
    /\ runs[1].pc = "returned"
    /\ runs[1].trainResp = "failed"
    /\ steps[1].status = "error"
    /\ steps[2].status = "pending"
    /\ overallProgress = Num(100 * WPreprocessing)

\* C12: when the generation request fails, the handler marks generation
\* 'error' and returns: no artifact is handed to setGeneratedData, the
\* validation phase is not touched, onNext is not called, and the run,
\* having returned, changes nothing afterwards.
C12_GenerationFailureStopsRun ==
    [][ \A r \in 1..MaxRuns :
          /\ ( /\ runs[r].pc = "gen_post"
               /\ Resumes(r)
               /\ runs'[r].genResp = "failed" )
             => /\ runs'[r].pc = "returned"
                /\ steps'[2].status = "error"
                /\ steps'[3] = InitialSteps[3]
                /\ UNCHANGED <<generatedData, onNextCalls, overallProgress>>
          /\ ( /\ runs[r].pc = "returned"
               /\ runs[r].genResp = "failed"
               /\ runIdRef' = runIdRef )
             => /\ runs'[r] = runs[r]
                /\ UNCHANGED <<steps, overallProgress, generatedData,
                               onNextCalls>> ]_vars

C12_Witness ==
    /\ runs[1].pc = "returned"
    /\ runs[1].genResp = "failed"
    /\ steps[2].status = "error"
    /\ steps[3].status = "pending"
    /\ generatedData.by = 0
    /\ onNextCalls = 0

-----------------------------------------------------------------------------
(* Claims about cancellation, checked under SpecAbort.                     *)

\* The states in which a run has a remote request in flight.
RequestInFlight == {"train_post", "poll_fetch", "sanity", "gen_post"}

\* C13: once abortRef is set, a continuation of the run that resumes writes
\* nothing to steps or overallProgress, issues no remote request, delivers
\* no artifact and does not call onNext, whichever suspension point it was
\* waiting at.
C13_NoSideEffectOnceAborted ==
    [][ \A r \in 1..MaxRuns :
          (abortRef /\ Resumes(r))
          => /\ UNCHANGED <<steps, overallProgress, generatedData,
                            onNextCalls>>
             /\ runs'[r].pc \notin RequestInFlight ]_vars

\* The continuation of run r that resumes gets 'aborted' from the poller:
\* the flag is set when pollUntilDone is entered after the train request
\* succeeded, or when an iteration starts after the sleep.
PollerReturnsAborted(r) ==
    /\ Resumes(r)
    /\ PollTop(abortRef) = "aborted"
    /\ \/ runs[r].pc = "poll_sleep"
       \/ runs[r].pc = "train_post" /\ runs'[r].trainResp # "failed"

\* C14: when the poller returns 'aborted' during training, the run returns
\* at once: no phase is marked 'error' (steps is not written at all), no
\* sanity re-check and no generation request follow, no artifact is
\* delivered and onNext is not called.
C14_AbortedPollerEndsRunSilently ==
    [][ /\ ReturnedIsFinal
        /\ \A r \in 1..MaxRuns :
             PollerReturnsAborted(r)
             => /\ runs'[r].pc = "returned"
                /\ UNCHANGED <<steps, overallProgress, generatedData,
                               onNextCalls>> ]_vars

C14_Witness ==
    /\ abortRef
    /\ runs[1].pc = "returned"
    /\ runs[1].trainResp = "ok"
    /\ Statuses = <<"completed", "running", "pending", "pending">>
    /\ polls >= 2

-----------------------------------------------------------------------------
(* Claims about the phases, with interleaved invocations (Spec) and for    *)
(* the one run of the UI (SpecUI).                                         *)

\* The phases whose status is 'error'.
ErrorPhases == {k \in 0..3 : steps[k].status = "error"}

\* C15: at most one phase is 'error', and once a phase is 'error' neither
\* steps nor overallProgress changes until runGenerationPipeline is invoked
\* again; continuations of a superseded run included.
C15_ErrorIsTerminal ==
    [][ /\ Cardinality(ErrorPhases') <= 1
        /\ (ErrorPhases # {} /\ runIdRef' = runIdRef)
           => UNCHANGED <<steps, overallProgress>> ]_vars

\* C16: the phases form a forward-only prefix: every phase before a
\* non-pending phase is 'completed' or 'error', at most one phase is
\* 'running', every phase after the running one is 'pending'; so validation
\* is 'completed' only when generation is.
C16_PhasesFormForwardPrefix ==
    /\ \A k \in 0..3 :
         steps[k].status # "pending"
         => \A j \in 0..(k - 1) : steps[j].status \in {"completed", "error"}
    /\ Cardinality({k \in 0..3 : steps[k].status = "running"}) <= 1
    /\ \A k \in 0..3 :
         steps[k].status = "running"
         => \A j \in (k + 1)..3 : steps[j].status = "pending"
    /\ steps[3].status = "completed" => steps[2].status = "completed"

\* C17: a phase becomes 'completed' only from 'running': every completed
\* phase was marked 'running' earlier in the run, validation as well as
\* preprocessing and training.
C17_CompletedOnlyFromRunning ==
    [][ \A k \in 0..3 :
          (steps[k].status # "completed" /\ steps'[k].status = "completed")
          => steps[k].status = "running" ]_vars

\* The original reading of C18: within one run a status that is 'completed'
\* or 'error' never changes, and no phase returns to 'pending'.
C18_FinalStatusNeverChanges ==
    [][ runIdRef' = runIdRef
        => \A k \in 0..3 :
             /\ steps[k].status \in {"completed", "error"}
                => steps'[k].status = steps[k].status
             /\ steps[k].status # "pending"
                => steps'[k].status # "pending" ]_vars

\* The sanity re-check of run r settles and is rejected.
SanityRejects(r) ==
    /\ runs[r].pc = "sanity"
    /\ Resumes(r)
    /\ runs'[r].sanity = "other"

\* C18: within one run an 'error' status never changes, no phase returns to
\* 'pending', and a 'completed' status changes in one case only: the sanity
\* re-check after training is rejected and turns training from 'completed'
\* to 'error'.
C18_StatusMovesForward ==
    [][ runIdRef' = runIdRef
        => \A k \in 0..3 :
             /\ steps[k].status = "error" => steps'[k].status = "error"
             /\ steps[k].status # "pending" => steps'[k].status # "pending"
             /\ steps[k].status = "completed"
                => \/ steps'[k].status = "completed"
                   \/ /\ k = 1
                      /\ steps'[k].status = "error"
                      /\ \E r \in 1..MaxRuns : SanityRejects(r) ]_vars

C18_Witness ==
    /\ runs[1].pc = "returned"
    /\ runs[1].sanity = "other"
    /\ Statuses = <<"completed", "error", "pending", "pending">>
    /\ overallProgress = TrainingCompletedOverall

\* C19: an artifact has been handed to setGeneratedData only when all four
\* phases are 'completed'; in particular the run that delivered it has
\* completed validation.
C19_ArtifactOnlyAfterAllCompleted ==
    generatedData.by # 0
    => Statuses = <<"completed", "completed", "completed", "completed">>

\* C20: while the generation request of a run is in flight, generation
\* having just been marked 'running', training is 'completed' with progress
\* 100 and overallProgress is 60, whatever statuses the poller saw before
\* 'completed'.
C20_GenerationStartsAtSixty ==
    \A r \in 1..MaxRuns :
      runs[r].pc = "gen_post"
      => /\ steps[2].status = "running"
         /\ steps[1] = [status |-> "completed", progress |-> Num(100)]
         /\ overallProgress = Num(100 * 60)

C20_Witness ==
    /\ runs[1].pc = "gen_post"
    /\ runs[1].sanity = "completed"
    /\ steps[2].status = "running"
    /\ polls >= 3

-----------------------------------------------------------------------------
(* Claims about the values of one run: weights, request contents, reset.   *)

\* The weight of phase k and the sum of the weights of the phases before it.
Weight(k) == <<WPreprocessing, WTraining, WGeneration, WValidation>>[k + 1]
RECURSIVE WeightBefore(_)
WeightBefore(k) == IF k = 0 THEN 0 ELSE WeightBefore(k - 1) + Weight(k - 1)

\* C21: overallProgress always is, for some phase k with local progress p,
\* the sum of the weights before k plus (p / 100) x weight(k); it is a
\* number in [0, 100]; with p = 100 it is the cumulative weight of phases
\* up to k; the four weights sum to 100.
C21_OverallIsWeightedSum ==
    /\ WeightBefore(3) + Weight(3) = 100
    /\ ~overallProgress.nan
    /\ overallProgress.val \in 0..(100 * 100)
    /\ \E k \in 0..3 :
         /\ ~steps[k].progress.nan
         /\ overallProgress.val =
              100 * WeightBefore(k) + steps[k].progress.val * Weight(k)

\* Run r issues its generation request in this step.
SendsGeneration(r) == runs[r].pc = "sanity" /\ runs'[r].pc = "gen_post"

\* C22: the count of the generation request is min(100000, samples), with
\* samples as parameters.samples was when the run started, whatever the
\* props have become since; it never exceeds 100000.
C22_CountIsCappedSnapshot ==
    [][ \A r \in 1..MaxRuns :
          SendsGeneration(r)
          => /\ runs'[r].count <= 100000
             /\ runs'[r].count =
                  IF runs[r].started.samples > 100000 THEN 100000
                  ELSE runs[r].started.samples ]_vars

C22_Witness ==
    /\ runs[1].pc = "gen_post"
    /\ runs[1].started.samples = 250000
    /\ props.samples # 250000
    /\ runs[1].count = 100000

\* C23: the step that starts a run takes a run id greater than the id of
\* every earlier run and leaves, at its first suspension point, nothing of
\* the earlier state: phases 1-3 pending at 0, phase 0 at 0 (already marked
\* running by line 181), overallProgress 0, the log holding only the start
\* line of the new run (pushed on the emptied log by line 177), the job-id
\* reference null and the cancellation flag false.
C23_StartResetsEverything ==
    [][ runIdRef' # runIdRef
        => /\ runIdRef' > runIdRef
           /\ \A r \in 1..MaxRuns : runs[r].pc # "idle" => r < runIdRef'
           /\ \A k \in 1..3 :
                steps'[k] = [status |-> "pending", progress |-> Num(0)]
           /\ steps'[0] = [status |-> "running", progress |-> Num(0)]
           /\ overallProgress' = Num(0)
           /\ debugLog' = <<[by |-> runIdRef', line |-> "started"]>>
           /\ jobIdRef' = "null"
           /\ abortRef' = FALSE ]_vars

C23_Witness ==
    /\ runIdRef = 2
    /\ runs[1].pc = "returned"
    /\ runs[1].sanity = "other"
    /\ runs[2].pc = "pre_delay"
    /\ runs[2].p = 0
    /\ Statuses = <<"running", "pending", "pending", "pending">>
    /\ steps[1].progress = Num(0)
    /\ jobIdRef = "null"

\* Run r issues its training request in this step.
SendsTraining(r) == runs[r].pc = "pre_done_delay" /\ runs'[r].pc = "train_post"

\* C24: the body of the training request names the model the user selected
\* and the dataset_id of the uploaded file, as the props gave them when the
\* run started.
C24_TrainBodyNamesSelection ==
    [][ \A r \in 1..MaxRuns :
          SendsTraining(r)
          => runs'[r].trainBody =
               [model_name |-> runs[r].started.model,
                dataset_id |-> runs[r].started.file] ]_vars

\* C25: whatever the train request, the status fetches, the sanity re-check
\* and the generation request answer, no invocation of runGenerationPipeline
\* ends with its promise rejected.
C25_NothingEscapesTheDriver ==
    \A r \in 1..MaxRuns : runs[r].pc # "rejected"

C25_Witness ==
    /\ runs[1].sanity = "rejected"
    /\ runs[1].pc = "gen_post"
    /\ steps[2].status = "running"

-----------------------------------------------------------------------------
(* The debug log, checked under SpecLog.                                   *)

\* C26: after any sequence of pushLog calls and run starts the log holds at
\* most 200 lines, the most recent first; a push on a full log keeps the 199
\* most recent lines in their order and drops the oldest; a step leaves
\* either the new line on top of the earlier ones or, at the start of a run,
\* the new line alone.
C26_LogIsBoundedAndOrdered ==
    [][ /\ Len(fullLog') <= 200
        /\ fullLog'[1] = pushes'
        /\ \A i \in 1..(Len(fullLog') - 1) : fullLog'[i] > fullLog'[i + 1]
        /\ \/ Len(fullLog') = 1
           \/ /\ Len(fullLog) < 200
              /\ fullLog' = <<pushes'>> \o fullLog
           \/ /\ Len(fullLog) = 200
              /\ fullLog' = <<pushes'>> \o SubSeq(fullLog, 1, 199) ]_vars

C26_Witness ==
    /\ Len(fullLog) = 200
    /\ fullLog[200] > 1
    /\ fullLog[1] = pushes

-----------------------------------------------------------------------------
(* Requests: how many a run issues, and whose job id they name.           *)

\* Run r issues a remote request in this step.
NewRequest(r) ==
    /\ runs'[r].pc \in RequestInFlight
    /\ runs'[r].pc # runs[r].pc

\* C27: a run issues its training request only when it has had no answer to
\* one yet, and likewise its generation request, so at most one of each; the
\* step in which a run marks a phase 'error' makes it return, and a returned
\* run never resumes, so no request follows an error.
C27_NoRetry ==
    [][ /\ ReturnedIsFinal
        /\ \A r \in 1..MaxRuns :
             /\ SendsTraining(r)
                => runs[r].trainResp = "none" /\ runs[r].genResp = "none"
             /\ SendsGeneration(r) => runs[r].genResp = "none"
             /\ runs[r].trainResp # "none" => runs'[r].pc # "train_post"
             /\ runs[r].genResp # "none" => ~NewRequest(r)
             /\ (Resumes(r) /\ ErrorPhases' \ ErrorPhases # {})
                => runs'[r].pc = "returned" /\ ~NewRequest(r) ]_vars

C27_Witness ==
    /\ runs[1].pc = "returned"
    /\ runs[1].trainResp = "ok"
    /\ runs[1].genResp = "failed"
    /\ ErrorPhases = {2}

\* Run r issues its sanity re-check in this step.
SendsSanity(r) == runs[r].pc = "train_done_delay" /\ runs'[r].pc = "sanity"

\* C28: the live run issues its sanity re-check and its generation request
\* for the job id its own training request returned, whatever training
\* responses arrived for superseded runs meanwhile.
C28_LiveRunUsesOwnJobId ==
    [][ \A r \in 1..MaxRuns :
          r = runIdRef
          => /\ SendsSanity(r) => jobIdRef = runs[r].jobId
             /\ SendsGeneration(r) => runs'[r].genJob = runs[r].jobId ]_vars

\* C29: a run whose id is no longer the current run id issues no remote
\* request: no training request, no status fetch, no sanity re-check, no
\* generation request.
C29_SupersededRunSendsNothing ==
    [][ \A r \in 1..MaxRuns :
          (r < runIdRef /\ Resumes(r)) => ~NewRequest(r) ]_vars

\* C30: setGeneratedData and onNext are only called by the run whose id is
\* the current run id: a step of a superseded run changes neither the
\* delivered artifact nor the count of completion signals.
C30_SupersededRunDeliversNothing ==
    [][ \A r \in 1..MaxRuns :
          (r < runIdRef /\ Resumes(r))
          => UNCHANGED <<generatedData, onNextCalls>> ]_vars

-----------------------------------------------------------------------------
(* Further claims about one call of pollUntilDone, checked under SpecPoll. *)

\* The fetch in flight settles with a payload and onTick receives its tick.
TickDelivered == call.pc = "fetch" /\ callTicks' = callTicks + 1

\* C31: with requireRunning false, a fetch that resolves with normalized
\* status 'completed' makes the call return 'completed', whether or not
\* 'running' was seen before; and a call returns 'completed' only in a step
\* that first delivered the tick of that fetch to onTick.
C31_UngatedCompletedReturns ==
    [][ /\ ( /\ ~call.requireRunning
             /\ TickDelivered
             /\ lastTick'.status = "completed" )
           => call'.pc = "returned" /\ call'.result = "completed"
        /\ ( /\ ~call.requireRunning
             /\ call.result # "completed"
             /\ call'.result = "completed" )
           => TickDelivered /\ lastTick'.status = "completed" ]_vars

C31_Witness ==
    /\ ~call.requireRunning
    /\ call.result = "completed"
    /\ ~obsRunning
    /\ callFetches >= 2
    /\ lastTick.status = "completed"

\* C32: a fetch that resolves with a normalized status other than
\* 'running', 'completed', 'failed' and 'error' is not terminal: its tick is
\* delivered, the consecutive-error counter is 0 afterwards and the call
\* waits for the next iteration.
C32_UnknownStatusKeepsPolling ==
    [][ ( /\ TickDelivered
          /\ lastTick'.status
               \notin {"running", "completed", "failed", "error"} )
        => /\ call'.pc = "sleep"
           /\ call'.result = "none"
           /\ call'.loc.errors = 0 ]_vars

C32_Witness ==
    /\ call.pc = "sleep"
    /\ lastTick.status = ""
    /\ call.loc.errors = 0
    /\ Len(history) >= 2
    /\ history[1] = "other"
    /\ callFetches = Len(history)
    /\ callTicks = 1

\* The four values a phase's status can take.
PhaseStatusValues == {"pending", "running", "completed", "error"}

\* C33: every phase's progress is at all times an integer in [0, 100] and
\* its status one of pending, running, completed, error, whatever percent
\* the status endpoint returns during training.
C33_PhaseProgressInRange ==
    \A k \in 0..3 :
        /\ ~steps[k].progress.nan
        /\ steps[k].progress.val \in 0..100
        /\ steps[k].status \in PhaseStatusValues

\* Some invocation has returned and left a phase in 'error'.
RunEndedInError ==
    /\ ErrorPhases # {}
    /\ \A r \in 1..MaxRuns : runs[r].pc \in {"idle", "returned"}
    /\ \E r \in 1..MaxRuns : runs[r].pc = "returned"

\* C34: after a run has ended with a phase in 'error' the Start button is
\* rendered again, so that the user can start a new run.
C34_StartEnabledAfterError == RunEndedInError => ~isGenerating

\* C35 (as claimed): a call that returns with the abort flag set returns
\* 'aborted' or throws.
C35_AbortedCallNeverCompletes ==
    [][ ( callAbort /\ call.pc # "returned" /\ call'.pc = "returned" )
        => call'.result \in {"aborted", "threw"} ]_vars

\* C35 (amended): once the abort flag is set the call eventually returns and
\* starts no further fetch; at the top of the loop it returns 'aborted', and
\* only the fetch that was in flight can still end it otherwise, by a throw
\* or by 'completed'.
C35_AbortedCallReturns ==
    /\ callAbort ~> (call.pc = "returned")
    /\ [][ callAbort => callFetches' = callFetches ]_vars
    /\ [][ ( callAbort /\ call.pc \in {"start", "sleep"} /\ call' # call )
           => call'.result = "aborted" ]_vars
    /\ [][ ( callAbort /\ call.pc = "fetch" /\ call'.pc = "returned" )
           => call'.result \in {"completed", "threw"} ]_vars

C35_Witness ==
    /\ callAbort
    /\ call.pc = "returned"
    /\ call.result = "completed"
    /\ callFetches >= 2

\* The run finished: validation 'completed', overallProgress 100, onNext
\* called once, the artifact handed over.
RunFinished ==
    /\ steps[3].status = "completed"
    /\ overallProgress = Num(100 * 100)
    /\ onNextCalls = 1
    /\ generatedData.by # 0

\* The poller gave up (maxConsecutiveErrors failing status fetches in a
\* row): the run returned with training 'error' before any sanity re-check.
PollerGaveUp ==
    /\ \E r \in 1..MaxRuns : runs[r].pc = "returned" /\ runs[r].sanity = "none"
    /\ steps[1].status = "error"

\* The sanity re-check read another status than 'completed'.
SanityStopped ==
    /\ \E r \in 1..MaxRuns : runs[r].pc = "returned" /\ runs[r].sanity = "other"
    /\ steps[1].status = "error"

C37_WizardStateIsConsistent ==
    /\ currentStep # "upload" => props.file # "null"
    /\ currentStep = "results" => generatedData.by # 0

\* One of the four callbacks that advance the wizard runs.
AdvancingCallback ==
    \/ \E file \in {"d1", "d2"} : handleFileUpload(file)
    \/ \E model \in {"tabular-gan", "tabular-dp"} : handleModelSelect(model)
    \/ \E samples \in {DefaultSamples, 250000} : handleParametersSet(samples)
    \/ \E r \in 1..MaxRuns : ValDoneResume(r)

\* C38: handleStepClick sets currentStep to the clicked step exactly when
\* that step's index is at most the current one's and never moves the wizard
\* forward; only the upload, model-select, parameters-set and results
\* callbacks do.
C38_StepClickNeverAdvances ==
    [][ /\ \A i \in 1..Len(WorkflowSteps) :
             handleStepClick(WorkflowSteps[i]) =>
               /\ StepIndex(currentStep') <= StepIndex(currentStep)
               /\ (currentStep' = WorkflowSteps[i]) <=> (i <= StepIndex(currentStep))
        /\ StepIndex(currentStep') > StepIndex(currentStep) => AdvancingCallback
      ]_vars

\* The wizard went back to 'upload' by a click: the file is still there.
C38_Witness ==
    /\ currentStep = "upload"
    /\ props.file # "null"
====
